---- MODULE Spec2Model ----
(***************************************************************************)
(* A model of goscript: a host Script instance (New, Execute, Close), the  *)
(* generated child program it talks to over stdin/stdout/stderr, and the   *)
(* temporary directory that holds the generated source file.               *)
(***************************************************************************)
EXTENDS Integers, Sequences, FiniteSets, TLC

\* ------------------------------------------------------------------ bounds

\* Execute calls made in all, by whichever goroutines.
MaxCalls == 2
\* Close calls the closing goroutine makes.
MaxCloses == 2
\* Longest argument list passed to Execute.
MaxArgs == 2

\* The goroutines that call Execute concurrently.
Callers == {"g1", "g2"}

\* ------------------------------------------------------------------ values

\* Argument values. "a" is a plain string; "hang" makes the user's function
\* loop forever; "fail" makes it return a registered error value; "raw"
\* makes it return an error value whose type was never gob.Register-ed.
Values == {"a", "hang", "fail", "raw"}

\* Plain strings, all different.
PlainValues == << "a", "b", "c", "d" >>

\* n plain arguments
Plain(n) == SubSeq(PlainValues, 1, n)

\* The argument lists Execute is called with: every length up to MaxArgs,
\* and each value alone.
ArgLists == {Plain(n) : n \in 0..MaxArgs} \cup {<< v >> : v \in Values}

\* ------------------------------------------------------------------ errors

NoErr == [kind |-> "nil", text |-> <<>>]
PlainErr(msg) == [kind |-> msg, text |-> <<>>]
\* errors.New(string(stderrb)) in cmdErr
StderrErr(text) == [kind |-> "stderr", text |-> text]
\* Error{Err: err, Stderr: output}
Error(text) == [kind |-> "Error", text |-> text]

\* ------------------------------------------------------------------ snippet

\* A parameter segment as written: a name and the tokens of its type (none
\* when the type is left out, "..." first when it is variadic).
P(name, typ) == [Name |-> name, Typ |-> typ]
Other == [entry |-> FALSE, params |-> <<>>]
Entry(params) == [entry |-> TRUE, params |-> params]

Snippets ==
    { << Other >>,
      << Other, Entry(<< >>) >>,
      << Entry(<< P("name", <<"string">>) >>) >>,
      << Entry(<< P("items", <<"...", "string">>) >>) >>,
      << Other, Entry(<< P("salutation", << >>), P("name", <<"string">>) >>) >>,
      << Other, Other, Entry(<< P("separator", <<"string">>), P("items", <<"...", "string">>) >>) >>,
      << Other, Other, Other, Entry(<< P("separator", <<"string">>), P("items", << >>) >>) >> }

\* The snippet as text: every line is a sequence of tokens, where "(", ")",
\* "," and " " are tokens of their own. The entry point is written indented,
\* with its result list; any other line is a comment that mentions it.
ParamText(p) == IF p.Typ = << >> THEN << p.Name >> ELSE << p.Name, " " >> \o p.Typ

RECURSIVE ParamsText(_, _)
ParamsText(params, i) ==
    IF i > Len(params) THEN << >>
    ELSE (IF i > 1 THEN << ",", " " >> ELSE << >>) \o ParamText(params[i])
             \o ParamsText(params, i + 1)

LineText(l) ==
    IF l.entry
    THEN << " ", "func goscript", "(" >> \o ParamsText(l.params, 1)
             \o << ")", " ", "(", "string", ",", " ", "error", ")", " ", "{" >>
    ELSE << "//", " ", "func goscript", "(", ")" >>

SourceText(snippet) == [i \in 1..Len(snippet) |-> LineText(snippet[i])]

\* ------------------------------------------------------------------ strings

RECURSIVE IndexFrom(_, _, _)
\* the first position at or after i where s holds sep, 0 when there is none
IndexFrom(s, sep, i) ==
    IF i > Len(s) THEN 0
    ELSE IF s[i] = sep THEN i
    ELSE IndexFrom(s, sep, i + 1)

RECURSIVE Split(_, _)
\* strings.Split: the pieces of s between the occurrences of sep
Split(s, sep) ==
    LET i == IndexFrom(s, sep, 1)
    IN  IF i = 0 THEN << s >>
        ELSE << SubSeq(s, 1, i - 1) >> \o Split(SubSeq(s, i + 1, Len(s)), sep)

RECURSIVE TrimLeft(_)
TrimLeft(s) == IF s # << >> /\ Head(s) = " " THEN TrimLeft(Tail(s)) ELSE s

RECURSIVE TrimRight(_)
TrimRight(s) ==
    IF s # << >> /\ s[Len(s)] = " " THEN TrimRight(SubSeq(s, 1, Len(s) - 1)) ELSE s

\* strings.TrimSpace
TrimSpace(s) == TrimRight(TrimLeft(s))

\* strings.HasPrefix
HasPrefix(s, prefix) == Len(s) >= Len(prefix) /\ SubSeq(s, 1, Len(prefix)) = prefix

\* ------------------------------------------------------------------ signature

Variadic(a) == HasPrefix(a.Typ, << "..." >>)

RECURSIVE BackfillAll(_, _, _)
\* a backfill that does not stop at a descriptor that has a type
BackfillAll(args, j, typ) ==
    IF j < 1 THEN args
    ELSE BackfillAll([args EXCEPT ![j].Typ = typ], j - 1, typ)

RECURSIVE Backfill(_, _, _)
\* lines 176-181: walk back from j, giving typ to every untyped descriptor,
\* stopping at the first that has a type
Backfill(args, j, typ) ==
    IF j < 1 THEN args
    ELSE IF args[j].Typ # << >> THEN args
    ELSE Backfill([args EXCEPT ![j].Typ = typ], j - 1, typ)

RECURSIVE ExtractFrom(_, _, _)
\* the loop of lines 168-188 from segment i on
ExtractFrom(segs, i, args) ==
    IF i > Len(segs) THEN args
    ELSE LET ss   == Split(TrimSpace(segs[i]), " ")
             name == ss[1]
             typ  == IF Len(ss) > 1 THEN ss[2] ELSE << >>
             back == IF Len(ss) > 1 THEN Backfill(args, i - 1, typ) ELSE args
         IN  ExtractFrom(segs, i + 1,
                 Append(back, [Index |-> i - 1, Name |-> name, Typ |-> typ]))

extractArguments(code) ==
    LET opened == Split(code, "(")
        closed == Split(opened[2], ")")
        segs   == Split(closed[1], ",")
    IN  IF segs[1] = << >> THEN << >> ELSE ExtractFrom(segs, 1, << >>)

RECURSIVE ScanScript(_, _)
ScanScript(script, n) ==
    IF n > Len(script)
    THEN [n |-> 0, args |-> << >>, err |-> PlainErr("missing func goscript")]
    ELSE LET trimline == TrimSpace(script[n])
         IN  IF ~HasPrefix(trimline, << "func goscript", "(" >>)
             THEN ScanScript(script, n + 1)
             ELSE [n |-> n, args |-> extractArguments(trimline), err |-> NoErr]

\* a processScript whose error New does not get to see
processScriptUnchecked(script) == [ScanScript(script, 1) EXCEPT !.err = NoErr]

processScript(script) == ScanScript(script, 1)

\* ------------------------------------------------------------------ template

\* The lines of scriptHarnessCode up to the substitution point.
TemplateHead ==
    << "// Code generated by goscript; DO NOT EDIT", "// github.com/matryer/goscript", "",
       "package main", "", "import (", "encoding/gob", "os", "log", ")", "",
       "// <goscript>", "{{ .Goscript }}" >>

RECURSIVE FindGoscript(_)
FindGoscript(line) ==
    IF line > Len(TemplateHead) THEN line
    ELSE IF TemplateHead[line] = "{{ .Goscript }}" THEN line
    ELSE FindGoscript(line + 1)

scriptStartLine == FindGoscript(1) - 1

\* ------------------------------------------------------------------ diagnostics

\* A line of the child's stderr: the toolchain's marker line, a line that
\* names goscript.go with a line number n, or any other text.
Marker == [kind |-> "marker", n |-> 0]
Ref(n) == [kind |-> "ref", n |-> n]
Text(t) == [kind |-> t, n |-> 0]

RECURSIVE processLines(_, _, _)
processLines(scriptLines, out, i) ==
    IF i > Len(out) THEN << >>
    ELSE LET line == out[i]
             rest == processLines(scriptLines, out, i + 1)
         IN  IF line.kind = "marker" THEN rest
             ELSE IF line.kind = "ref"
             THEN IF line.n - scriptStartLine > scriptLines THEN rest
                  ELSE << [kind |-> "goscript", n |-> line.n - scriptStartLine] >> \o rest
             ELSE << line >> \o rest

processOutput(scriptLines, out) == processLines(scriptLines, out, 1)

\* The stderr texts a child that fails to start may leave behind.
Diags ==
    { << >>, << Marker, Ref(scriptStartLine + 1), Text("exit status 2") >> }

\* ------------------------------------------------------------------ state

VARIABLES
    phase,          \* "init" before New has run, "built" after it returned
    err,            \* Script.err
    scriptFile,     \* Script.scriptFile ("" when unset)
    scriptLines,    \* Script.scriptLines
    cmd,            \* Script.cmd: "nil" or "set"
    process,        \* Script.cmd.Process: "nil" or "set"
    ProcessState,   \* Script.cmd.ProcessState: "nil", "exit0" or "exit1"
    stdin,          \* Script.stdin: "nil", "open" or "closed"
    stdout,         \* Script.stdout
    stderr,         \* Script.stderr
    executeLock,    \* Script.executeLock: "free" or the goroutine holding it
    dirExists,      \* the temporary directory is on disk
    fileExists,     \* goscript.go is on disk
    child,          \* the child: "none", "wait" (in r.Decode), "hung", "exited"
    exitStatus,     \* how the child ended: "none", "0", "1", "2", "killed"
    InArgs,         \* the descriptors the generated program unpacks with
    stderrOut,      \* what the child wrote to stderr and nobody read yet
    reqStream,      \* requests written to the child's stdin, not yet decoded
    respStream,     \* responses written to the child's stdout, not yet decoded
    handshake,      \* what New decoded first: "none", "ready", "other", "eof"
    pc,             \* per goroutine: "idle", "lock", "encode", "decode"
    args,           \* per goroutine: the argument list of its current/last call
    ret,            \* per goroutine: what its last Execute returned
    calls,          \* per goroutine: Execute calls made
    cpc,            \* the closing goroutine's position inside Close
    closes,         \* Close calls that returned
    panicked,       \* a nil dereference happened in the host
    source,         \* the snippet New was called with, as written
    stderrb         \* what New read from the child's stderr

inst == << err, scriptFile, scriptLines, cmd, process, ProcessState, stdin, stdout, stderr >>
disk == << dirExists, fileExists >>
proc == << child, exitStatus, InArgs, stderrOut >>
streams == << reqStream, respStream >>
execs == << pc, args, ret, calls >>
closer == << cpc, closes >>
given == << source, stderrb >>
vars == << phase, inst, executeLock, disk, proc, streams, handshake, execs, closer, panicked,
           given >>

NoRet == [Value |-> << >>, Error |-> NoErr, how |-> "none", exit |-> "none"]
ReadyToken == [Value |-> << << "ready" >> >>, Error |-> NoErr]

Init ==
    /\ phase = "init"
    /\ err = NoErr
    /\ scriptFile = ""
    /\ scriptLines = 0
    /\ cmd = "nil"
    /\ process = "nil"
    /\ ProcessState = "nil"
    /\ stdin = "nil"
    /\ stdout = "nil"
    /\ stderr = "nil"
    /\ executeLock = "free"
    /\ dirExists = FALSE
    /\ fileExists = FALSE
    /\ child = "none"
    /\ exitStatus = "none"
    /\ InArgs = << >>
    /\ stderrOut = << >>
    /\ reqStream = << >>
    /\ respStream = << >>
    /\ handshake = "none"
    /\ pc = [c \in Callers |-> "idle"]
    /\ args = [c \in Callers |-> << >>]
    /\ ret = [c \in Callers |-> NoRet]
    /\ calls = [c \in Callers |-> 0]
    /\ cpc = "idle"
    /\ closes = 0
    /\ panicked = FALSE
    /\ source = << >>
    /\ stderrb = << >>

\* ------------------------------------------------------------------ New

\* template.New("goscript").Parse(scriptHarnessCode) in init(): the template
\* is a constant of the program and parses.
scriptHarnessTemplateErr == NoErr

\* createScriptFile under the file system outcome fs: "ok", or the step that
\* failed ("tempdir", "create", "execute", "close").
createScriptFile(fs) ==
    IF fs = "tempdir" THEN [name |-> "", err |-> PlainErr("tempdir"), dir |-> FALSE, file |-> FALSE]
    ELSE IF fs = "create" THEN [name |-> "", err |-> PlainErr("create"), dir |-> TRUE, file |-> FALSE]
    ELSE IF fs = "execute" THEN [name |-> "", err |-> PlainErr("template"), dir |-> TRUE, file |-> TRUE]
    ELSE IF fs = "close" THEN [name |-> "", err |-> PlainErr("close"), dir |-> TRUE, file |-> TRUE]
    ELSE [name |-> "goscript.go", err |-> NoErr, dir |-> TRUE, file |-> TRUE]

\* The types the generated assertion args[i].(T) and the parameter list can
\* be compiled with.
GoTypes == {<< "string" >>, << "int" >>, << "...", "string" >>}

\* go run compiles the generated file only when every descriptor has a whole
\* type and only the last one is variadic.
Compiles(descs) ==
    \A i \in 1..Len(descs) :
        /\ descs[i].Typ \in GoTypes
        /\ Variadic(descs[i]) => i = Len(descs)

\* cmd.Wait(): nil for exit status 0, an *ExitError otherwise.
Wait(status) == IF status = "0" THEN NoErr ELSE PlainErr("exit status " \o status)

Blank ==
    [err |-> scriptHarnessTemplateErr, scriptFile |-> "", scriptLines |-> 0, cmd |-> "nil",
     process |-> "nil", ProcessState |-> "nil", stdin |-> "nil", stdout |-> "nil",
     stderr |-> "nil", dir |-> FALSE, file |-> FALSE, child |-> "none", exit |-> "none",
     InArgs |-> << >>, resp |-> << >>, handshake |-> "none"]

\* The Script New returns, and what it left on disk and running, for a
\* script, a file system outcome fs, a launch outcome ("ok" or the call that
\* failed), the child's start (boot: "ready", "other" for a different first
\* value, "fail" for a non-zero exit and "exit0" for a zero exit before any
\* value) and the text the child left on stderr.
NewFrom(ps, fs, launch, boot, diag) ==
    LET s1 == [Blank EXCEPT !.scriptLines = ps.n, !.err = ps.err]
        f  == createScriptFile(fs)
        s2 == [s1 EXCEPT !.scriptFile = f.name, !.err = f.err, !.dir = f.dir, !.file = f.file,
                         !.InArgs = IF f.err = NoErr THEN ps.args ELSE << >>]
        s3 == [s2 EXCEPT !.cmd = "set"]
        s4 == [s3 EXCEPT !.stdin = "open"]
        s5 == [s4 EXCEPT !.stdout = "open"]
        s6 == [s5 EXCEPT !.stderr = "open"]
        s7 == [s6 EXCEPT !.process = "set"]
        start  == IF Compiles(ps.args) THEN boot ELSE "fail"
        status == IF start = "exit0" THEN "0" ELSE "1"
        output == processOutput(s7.scriptLines, diag)
        werr   == Wait(status)
    IN  IF Blank.err # NoErr THEN Blank
        ELSE IF s1.err # NoErr THEN s1
        ELSE IF s2.err # NoErr THEN s2
        ELSE IF launch = "stdinpipe" THEN [s3 EXCEPT !.err = PlainErr("stdinpipe")]
        ELSE IF launch = "stdoutpipe" THEN [s4 EXCEPT !.err = PlainErr("stdoutpipe")]
        ELSE IF launch = "stderrpipe" THEN [s5 EXCEPT !.err = PlainErr("stderrpipe")]
        ELSE IF launch = "start"
        THEN [s6 EXCEPT !.err = PlainErr("start"), !.stdin = "closed", !.stdout = "closed",
                        !.stderr = "closed"]
        ELSE IF start \in {"fail", "exit0"}
        THEN \* Decode(&state) fails: ReadAll(stderr), processOutput, Wait
             [s7 EXCEPT !.handshake = "eof",
                        !.err = IF werr # NoErr THEN Error(output) ELSE werr,
                        !.ProcessState = "exit" \o status,
                        !.stdin = "closed", !.stdout = "closed", !.stderr = "closed",
                        !.child = "exited", !.exit = status]
        ELSE IF start # "ready"
        THEN [s7 EXCEPT !.handshake = "other", !.err = PlainErr("goscript failed to start"),
                        !.child = "wait", !.resp = << ReadyToken >>]
        ELSE [s7 EXCEPT !.handshake = "ready", !.child = "wait"]

\* New(script): processScript first, then the rest on what it returned.
NewScript(script, fs, launch, boot, diag) ==
    NewFrom(processScript(SourceText(script)), fs, launch, boot, diag)

New(script, fs, launch, boot, diag) ==
    /\ phase = "init"
    /\ phase' = "built"
    /\ LET s == NewScript(script, fs, launch, boot, diag)
       IN  /\ err' = s.err
           /\ scriptFile' = s.scriptFile
           /\ scriptLines' = s.scriptLines
           /\ cmd' = s.cmd
           /\ process' = s.process
           /\ ProcessState' = s.ProcessState
           /\ stdin' = s.stdin
           /\ stdout' = s.stdout
           /\ stderr' = s.stderr
           /\ dirExists' = s.dir
           /\ fileExists' = s.file
           /\ child' = s.child
           /\ exitStatus' = s.exit
           /\ InArgs' = s.InArgs
           /\ respStream' = s.resp
           /\ handshake' = s.handshake
           /\ stderrb' = IF s.handshake = "eof" THEN diag ELSE << >>
    /\ source' = script
    /\ UNCHANGED << executeLock, stderrOut, reqStream, execs, closer, panicked >>

\* ------------------------------------------------------------------ the child

\* args[Index] of a parameter that is not variadic is out of range, or the
\* variadic make() has a negative length: the generated loop panics.
\* a generated loop that cannot make an empty variadic slice
BindPanicsOnEmpty(descs, req) ==
    \E i \in 1..Len(descs) :
        IF Variadic(descs[i]) THEN Len(req) - descs[i].Index <= 0
        ELSE descs[i].Index >= Len(req)

BindPanics(descs, req) ==
    \E i \in 1..Len(descs) :
        IF Variadic(descs[i]) THEN Len(req) - descs[i].Index < 0
        ELSE descs[i].Index >= Len(req)

RECURSIVE BindFrom(_, _, _)
\* The locals of the generated loop, one per descriptor, each as a sequence:
\* the one element at Index, or for a variadic parameter all from Index on.
BindFrom(descs, req, i) ==
    IF i > Len(descs) THEN << >>
    ELSE << IF Variadic(descs[i]) THEN SubSeq(req, descs[i].Index + 1, Len(req))
            ELSE << req[descs[i].Index + 1] >> >> \o BindFrom(descs, req, i + 1)

Bind(descs, req) == BindFrom(descs, req, 1)

RECURSIVE Flatten(_)
Flatten(ss) == IF ss = << >> THEN << >> ELSE Head(ss) \o Flatten(Tail(ss))

\* The user's function: it loops forever on "hang", returns an error of an
\* unregistered type on "raw" and of a registered type on "fail", and
\* otherwise returns a value made of everything it was given.
goscript(bound) ==
    LET flat == Flatten(bound)
        has(v) == \E i \in 1..Len(flat) : flat[i] = v
    IN  IF has("hang") THEN [kind |-> "hang", Value |-> << >>, Error |-> NoErr]
        ELSE IF has("raw")
        THEN [kind |-> "return", Value |-> << >>, Error |-> PlainErr("errorString")]
        ELSE IF has("fail")
        THEN [kind |-> "return", Value |-> << >>, Error |-> PlainErr("failed")]
        ELSE [kind |-> "return", Value |-> << << "ret" >> >> \o bound, Error |-> NoErr]

\* gob encodes an interface value only when its concrete type is registered;
\* *errors.errorString is not.
Registered(e) == e.kind # "errorString"

ChildExit(status, why) ==
    /\ child' = "exited"
    /\ exitStatus' = status
    /\ stderrOut' = Append(stderrOut, Text(why))

\* One turn of the generated loop: decode a request, unpack it, call
\* goscript and encode the response.
ChildServe ==
    /\ child = "wait"
    /\ reqStream # << >>
    /\ reqStream' = Tail(reqStream)
    /\ LET req == Head(reqStream)
           out == goscript(Bind(InArgs, req))
       IN  IF BindPanics(InArgs, req)
           THEN ChildExit("2", "panic") /\ UNCHANGED respStream
           ELSE IF out.kind = "hang"
           THEN child' = "hung" /\ UNCHANGED << exitStatus, stderrOut, respStream >>
           ELSE IF ~Registered(out.Error) \/ stdout = "closed"
           THEN ChildExit("1", "encode") /\ UNCHANGED respStream
           ELSE /\ respStream' = Append(respStream, [Value |-> out.Value, Error |-> out.Error])
                /\ UNCHANGED << child, exitStatus, stderrOut >>
    /\ UNCHANGED << given, phase, inst, executeLock, disk, InArgs, handshake, execs, closer, panicked >>

\* a child whose Decode goes on waiting at the end of its input
DecodeWaits == FALSE

\* r.Decode(&args) returns an error: nothing is left to read and the host
\* closed its end of stdin.
DecodeFails == reqStream = << >> /\ stdin = "closed"

\* r.Decode(&args) fails once the host closed stdin: log.Fatalln.
ChildEOF ==
    /\ child = "wait"
    /\ DecodeFails
    /\ ChildExit("1", "EOF")
    /\ UNCHANGED << given, phase, inst, executeLock, disk, InArgs, streams, handshake, execs, closer,
                    panicked >>

\* ------------------------------------------------------------------ Execute

Exited(ps) == ps \in {"exit0", "exit1"}
Success(ps) == ps = "exit0"

\* cmdErr reads and returns the child's stderr
ReadsStderr == ProcessState # "nil" /\ Exited(ProcessState) /\ ~Success(ProcessState)

\* a cmdErr that loses the error it was given
cmdErrDropped(e) == IF ReadsStderr THEN StderrErr(stderrOut) ELSE NoErr

cmdErr(e) == IF ReadsStderr THEN StderrErr(stderrOut) ELSE e

\* Execute without its s.err check
HasErrIgnored == FALSE

\* Execute that takes an earlier failed call for a construction error
HasErrOrFailed == err # NoErr \/ \E c \in Callers : ret[c].how = "transport"

HasErr == err # NoErr

\* Execute without mutual exclusion
LockNeverHeld == TRUE

LockFree == executeLock = "free"

\* Execute dropping the error field of the response
DecodeValueOnly(res) == [Value |-> res.Value, Error |-> NoErr]

DecodeResult(res) == [Value |-> res.Value, Error |-> res.Error]

\* Execute calls begun so far
Begun == LET n(c) == calls[c] + (IF pc[c] = "idle" THEN 0 ELSE 1)
         IN  n("g1") + n("g2")

\* Execute up to the lock: the construction error is returned at once.
ExecuteBegin(c, a) ==
    /\ phase = "built"
    /\ ~panicked
    /\ pc[c] = "idle"
    /\ Begun < MaxCalls
    /\ IF HasErr
       THEN /\ ret' = [ret EXCEPT ![c] = [Value |-> << >>, Error |-> err,
                                          how |-> "construction", exit |-> exitStatus]]
            /\ calls' = [calls EXCEPT ![c] = @ + 1]
            /\ UNCHANGED << pc, args >>
       ELSE /\ pc' = [pc EXCEPT ![c] = "lock"]
            /\ args' = [args EXCEPT ![c] = a]
            /\ ret' = [ret EXCEPT ![c] = NoRet]
            /\ UNCHANGED calls
    /\ UNCHANGED << given, phase, inst, executeLock, disk, proc, streams, handshake, closer, panicked >>

ExecuteLock(c) ==
    /\ pc[c] = "lock"
    /\ ~panicked
    /\ LockFree
    /\ executeLock' = c
    /\ pc' = [pc EXCEPT ![c] = "encode"]
    /\ UNCHANGED << given, phase, inst, disk, proc, streams, handshake, args, ret, calls, closer,
                    panicked >>

\* an error return that forgets the Unlock
FailHoldingLock(c, e) ==
    /\ ret' = [ret EXCEPT ![c] = [Value |-> << >>, Error |-> cmdErr(e), how |-> "transport",
                                  exit |-> exitStatus]]
    /\ stderrOut' = IF ReadsStderr THEN << >> ELSE stderrOut
    /\ calls' = [calls EXCEPT ![c] = @ + 1]
    /\ pc' = [pc EXCEPT ![c] = "idle"]
    /\ UNCHANGED executeLock

\* return nil, s.cmdErr(err) with the deferred Unlock
Fail(c, e) ==
    /\ ret' = [ret EXCEPT ![c] = [Value |-> << >>, Error |-> cmdErr(e), how |-> "transport",
                                  exit |-> exitStatus]]
    /\ stderrOut' = IF ReadsStderr THEN << >> ELSE stderrOut
    /\ calls' = [calls EXCEPT ![c] = @ + 1]
    /\ pc' = [pc EXCEPT ![c] = "idle"]
    /\ executeLock' = "free"

\* s.stdinencoder.Encode(args)
ExecuteEncode(c) ==
    /\ pc[c] = "encode"
    /\ ~panicked
    /\ IF stdin = "closed"
       THEN Fail(c, PlainErr("file already closed")) /\ UNCHANGED reqStream
       ELSE IF child = "exited"
       THEN Fail(c, PlainErr("broken pipe")) /\ UNCHANGED reqStream
       ELSE /\ reqStream' = Append(reqStream, args[c])
            /\ pc' = [pc EXCEPT ![c] = "decode"]
            /\ UNCHANGED << executeLock, ret, calls, stderrOut >>
    /\ UNCHANGED << given, phase, inst, disk, child, exitStatus, InArgs, respStream, handshake, args,
                    closer, panicked >>

\* s.stdoutdecoder.Decode(&res) and the return
ExecuteDecode(c) ==
    /\ pc[c] = "decode"
    /\ ~panicked
    /\ IF stdout = "closed"
       THEN Fail(c, PlainErr("file already closed")) /\ UNCHANGED respStream
       ELSE IF respStream # << >>
       THEN /\ respStream' = Tail(respStream)
            /\ LET res == DecodeResult(Head(respStream))
               IN  ret' = [ret EXCEPT ![c] = [Value |-> res.Value, Error |-> res.Error,
                                              how |-> "ok", exit |-> exitStatus]]
            /\ calls' = [calls EXCEPT ![c] = @ + 1]
            /\ pc' = [pc EXCEPT ![c] = "idle"]
            /\ executeLock' = "free"
            /\ UNCHANGED stderrOut
       ELSE /\ child = "exited"
            /\ Fail(c, PlainErr("EOF"))
            /\ UNCHANGED respStream
    /\ UNCHANGED << given, phase, inst, disk, child, exitStatus, InArgs, reqStream, handshake, args,
                    closer, panicked >>

\* ------------------------------------------------------------------ Close

\* Close without its nil check on s.stdin
StdinAssumedSet == TRUE

StdinSet == stdin # "nil"
ProcessSet == cmd # "nil" /\ process # "nil"

\* Close that never kills
KillSkipped == FALSE

KillNeeded == ProcessState = "nil" \/ ~Exited(ProcessState)

\* Close that leaves the response stream alone
StdoutLeftOpen == FALSE

StdoutSet == stdout # "nil"
StderrSet == stderr # "nil"

\* Closing a stream through a nil interface value panics.
CloseStream(set, stream) == IF set /\ stream # "nil" THEN "closed" ELSE stream
ClosePanics(set, stream) == set /\ stream = "nil"

\* if s.stdin != nil { s.stdin.Close() }
CloseStdin ==
    /\ phase = "built"
    /\ ~panicked
    /\ cpc = "idle"
    /\ closes < MaxCloses
    /\ stdin' = CloseStream(StdinSet, stdin)
    /\ panicked' = (panicked \/ ClosePanics(StdinSet, stdin))
    /\ cpc' = "kill"
    /\ UNCHANGED << given, phase, err, scriptFile, scriptLines, cmd, process, ProcessState, stdout,
                    stderr, executeLock, disk, proc, streams, handshake, execs, closes >>

\* s.cmd.Process.Kill() unless the process is known to have exited
CloseKill ==
    /\ cpc = "kill"
    /\ ~panicked
    /\ IF ProcessSet /\ KillNeeded /\ child \in {"wait", "hung"}
       THEN child' = "exited" /\ exitStatus' = "killed"
       ELSE UNCHANGED << child, exitStatus >>
    /\ cpc' = "stdout"
    /\ UNCHANGED << given, phase, inst, executeLock, disk, InArgs, stderrOut, streams, handshake,
                    execs, closes, panicked >>

CloseStdout ==
    /\ cpc = "stdout"
    /\ ~panicked
    /\ stdout' = CloseStream(StdoutSet, stdout)
    /\ panicked' = (panicked \/ ClosePanics(StdoutSet, stdout))
    /\ cpc' = "stderr"
    /\ UNCHANGED << given, phase, err, scriptFile, scriptLines, cmd, process, ProcessState, stdin,
                    stderr, executeLock, disk, proc, streams, handshake, execs, closes >>

CloseStderr ==
    /\ cpc = "stderr"
    /\ ~panicked
    /\ stderr' = CloseStream(StderrSet, stderr)
    /\ panicked' = (panicked \/ ClosePanics(StderrSet, stderr))
    /\ cpc' = "remove"
    /\ UNCHANGED << given, phase, err, scriptFile, scriptLines, cmd, process, ProcessState, stdin,
                    stdout, executeLock, disk, proc, streams, handshake, execs, closes >>

\* defer os.Remove(s.scriptFile); return nil
CloseRemove ==
    /\ cpc = "remove"
    /\ ~panicked
    /\ fileExists' = IF scriptFile # "" THEN FALSE ELSE fileExists
    /\ cpc' = "idle"
    /\ closes' = closes + 1
    /\ UNCHANGED << given, phase, inst, executeLock, dirExists, proc, streams, handshake, execs,
                    panicked >>

\* ------------------------------------------------------------------ specification

BootOutcomes == {"ready", "other", "fail", "exit0"}
FsOutcomes == {"ok", "tempdir", "create", "execute", "close"}
LaunchOutcomes == {"ok", "stdinpipe", "stdoutpipe", "stderrpipe", "start"}

Construct ==
    /\ phase = "init"
    /\ \E script \in Snippets, fs \in FsOutcomes, launch \in LaunchOutcomes,
          boot \in BootOutcomes, diag \in Diags :
            New(script, fs, launch, boot, diag)

\* The steps of the host stop at a panic (~panicked in each).
Execute ==
    \E c \in Callers :
        \/ \E a \in ArgLists : ExecuteBegin(c, a)
        \/ ExecuteLock(c)
        \/ ExecuteEncode(c)
        \/ ExecuteDecode(c)

Close == CloseStdin \/ CloseKill \/ CloseStdout \/ CloseStderr \/ CloseRemove

Child == ChildServe \/ ChildEOF

Next == Construct \/ Execute \/ Close \/ Child

Spec == Init /\ [][Next]_vars

\* The snippets of the README's shape: an entry point with one parameter.
OneParameter ==
    {script \in Snippets :
        LET descs == processScript(SourceText(script)).args
        IN  Len(descs) = 1 /\ ~Variadic(descs[1])}

\* New where the file system and the launch succeed and the child gets to
\* its handshake: the constructions after which an Execute can be waiting
\* for a response.
ConstructStarted ==
    /\ phase = "init"
    /\ \E script \in OneParameter, diag \in Diags : New(script, "ok", "ok", "ready", diag)

NextStarted == ConstructStarted \/ Execute \/ Close \/ Child

\* Goroutines that can run do run, and so does the child process: a Close
\* that was called, an Execute past its s.err check and the child's loop are
\* not postponed forever. Nothing obliges a caller to begin a call.
FairSpec ==
    /\ Init
    /\ [][NextStarted]_vars
    /\ WF_vars(CloseKill \/ CloseStdout \/ CloseStderr \/ CloseRemove)
    /\ WF_vars(Child)
    /\ \A c \in Callers : WF_vars(ExecuteLock(c) \/ ExecuteEncode(c) \/ ExecuteDecode(c))

\* Only the child is sure to run: the operating system schedules the
\* process whatever the host's goroutines do, Close's kill included.
ChildFairSpec == Init /\ [][NextStarted]_vars /\ WF_vars(Child)

\* ------------------------------------------------------------------ signatures and diagnostics at large

\* Longest parameter list written.
MaxParams == 4
\* Most lines a snippet has.
MaxLines == 3

\* the sequences over S of length 0..n
SeqsUpTo(S, n) == UNION {[1..k -> S] : k \in 0..n}

\* The ways a parameter is written: without a type, with a one-word type,
\* variadic, and with a type that has parentheses and a space in it.
ParamForms ==
    { P("one", << >>), P("three", << "string" >>), P("age", << "int" >>),
      P("items", << "...", "string" >>), P("f", << "func", "(", ")", " ", "string" >>) }

ParamLists == SeqsUpTo(ParamForms, MaxParams)

\* n lines that are not the entry point
Lines(n) == [i \in 1..n |-> Other]

\* One signature at every place of a snippet of up to MaxLines lines.
Shapes ==
    { Lines(lead) \o << Entry(<< P("name", << "string" >>) >>) >> \o Lines(trail) :
        lead \in 0..(MaxLines - 1), trail \in 0..(MaxLines - 1) }

\* The lines go run may print: the marker, the exit status, and a position
\* in goscript.go anywhere from the template's head to past the snippet.
DiagLines ==
    { Marker, Text("exit status 2") }
        \cup { Ref(n) : n \in (scriptStartLine - 1)..(scriptStartLine + MaxLines + 1) }

WideDiags == SeqsUpTo(DiagLines, 2)

\* New on a snippet that is one entry point line, whatever its parameters.
ConstructSignature ==
    /\ phase = "init"
    /\ \E params \in ParamLists : New(<< Entry(params) >>, "ok", "ok", "ready", << >>)

\* New on a snippet whose child fails to start and leaves diag on stderr.
ConstructFailing ==
    /\ phase = "init"
    /\ \E script \in {sh \in Shapes : Len(sh) <= MaxLines}, diag \in WideDiags :
            New(script, "ok", "ok", "fail", diag)

NextParse == ConstructSignature \/ ConstructFailing \/ Close

\* New over every signature and every diagnostic text, then Close.
ParseSpec == Init /\ [][NextParse]_vars

\* ------------------------------------------------------------------ claims

Returned(c) == ret[c].how # "none"
NoClose == cpc = "idle" /\ closes = 0

\* C1: at most one call is in flight: a request is written to the request
\* stream only when no other caller has written one and not yet returned,
\* and nothing of an earlier call is left in either stream.
C1_OneInFlight ==
    [][ /\ Cardinality({c \in Callers : pc'[c] \in {"encode", "decode"}}) <= 1
        /\ Len(reqStream') > Len(reqStream)
             => /\ \A c \in Callers : pc[c] # "decode"
                /\ reqStream = << >>
                /\ respStream = << >> ]_vars

\* One caller waits for the lock while the other awaits its response.
C1_Witness == \E c, d \in Callers : pc[c] = "decode" /\ pc[d] = "lock"

\* C2: an Execute that succeeds at the protocol level returns the pair
\* goscript produced for that call's own arguments, unmodified.
C2_OwnResponse ==
    \A c \in Callers :
        ret[c].how = "ok" =>
            /\ ~BindPanics(InArgs, args[c])
            /\ LET out == goscript(Bind(InArgs, args[c]))
               IN  /\ out.kind = "return"
                   /\ ret[c].Value = out.Value
                   /\ ret[c].Error = out.Error

\* Two callers got different answers, one of them a call-defined error.
C2_Witness ==
    \E c, d \in Callers :
        /\ ret[c].how = "ok" /\ ret[c].Error # NoErr
        /\ ret[d].how = "ok" /\ ret[d].Error = NoErr

\* C3: with a construction error recorded, no step changes the stored
\* error, takes the lock, writes a request, reads a response or leaves a
\* caller inside Execute, and an Execute that returns returns (nil, that
\* error) and leaves the streams, the process and the disk alone.
C3_StickyError ==
    [][ (phase = "built" /\ err # NoErr) =>
            /\ err' = err
            /\ executeLock' = "free"
            /\ UNCHANGED streams
            /\ \A c \in Callers :
                 /\ pc'[c] = "idle"
                 /\ calls'[c] # calls[c] =>
                      /\ ret'[c].Value = << >>
                      /\ ret'[c].Error = err
                      /\ UNCHANGED << inst, proc, disk >> ]_vars

\* Both callers got the construction error back, around a Close.
C3_Witness ==
    /\ err # NoErr
    /\ closes >= 1
    /\ \A c \in Callers : ret[c].how = "construction" /\ ret[c].Error = err

\* C4: after New the instance has no construction error only if the first
\* value decoded was "ready", and a failed handshake decode always leaves
\* a construction error carrying the remapped stderr text.
C4_HandshakeDecides ==
    phase = "built" =>
        /\ err = NoErr => handshake = "ready"
        /\ handshake = "eof" => err.kind = "Error"

\* C5: a failed write or decode on a ready instance returns the child's
\* stderr when the child had exited with a non-zero status, and the raw
\* transport error otherwise.
C5_StderrOnExit ==
    \A c \in Callers :
        (handshake = "ready" /\ ret[c].how = "transport") =>
            IF ret[c].exit \in {"1", "2"}
            THEN ret[c].Error.kind = "stderr"
            ELSE ret[c].Error.kind \in {"EOF", "broken pipe", "file already closed"}

Blocked(c) == pc[c] = "decode" /\ child = "hung"

\* C6: when an Execute is blocked on a hung child and Close is called,
\* Close completes, the child is killed, and the Execute returns an error
\* and gives the lock back.
C6_CloseUnblocks ==
    \A c \in Callers :
        (Blocked(c) /\ cpc # "idle")
            ~> ( /\ cpc = "idle" /\ closes >= 1
                 /\ child = "exited" /\ exitStatus = "killed"
                 /\ pc[c] = "idle" /\ ret[c].how = "transport" /\ executeLock # c )

\* Close has run to its last step while the blocked Execute still holds
\* the lock.
C6_Witness ==
    \E c \in Callers :
        /\ args[c] = << "hang" >>
        /\ pc[c] = "decode"
        /\ executeLock = c
        /\ exitStatus = "killed"
        /\ cpc = "remove"

\* C7: no Close panics, in whatever state the instance is, and every step
\* of a Close that follows a completed Close leaves the instance, the
\* process, the streams and the disk as they were.
C7_CloseIdempotent ==
    [][ /\ ~panicked'
        /\ (closes >= 1 /\ cpc' # cpc) => UNCHANGED << inst, executeLock, disk, proc, streams >>
      ]_vars

\* Closed twice after a construction that failed before any pipe existed.
C7_Witness == closes >= 2 /\ cpc = "idle" /\ stdin = "nil" /\ dirExists

\* C8: once a Close has returned, neither the generated file nor its
\* directory remains.
C8_NothingLeft == closes >= 1 => (~fileExists /\ ~dirExists)

\* C9: from a successful handshake until Close is called the child keeps
\* running.
C9_StaysRunning == (handshake = "ready" /\ NoClose) => child \in {"wait", "hung"}

\* C10: with N parameters, none variadic, an Execute with another number
\* of arguments returns a call-defined error from the child and no value.
C10_ArityError ==
    \A c \in Callers :
        ( /\ handshake = "ready" /\ NoClose /\ Returned(c)
          /\ \A i \in 1..Len(InArgs) : ~Variadic(InArgs[i])
          /\ Len(args[c]) # Len(InArgs) )
        => (ret[c].how = "ok" /\ ret[c].Error # NoErr /\ ret[c].Value = << >>)

\* ------------------------------------------------------------------ C11

\* The arguments the parameters before a variadic one ask for.
Leading(descs) == Cardinality({i \in 1..Len(descs) : ~Variadic(descs[i])})

\* What each parameter is to be bound to, by its place in the list.
Expected(descs, req) ==
    [i \in 1..Len(descs) |->
        IF Variadic(descs[i]) THEN [k \in 1..(Len(req) - (i - 1)) |-> req[i - 1 + k]]
        ELSE << req[i] >>]

\* Execute calls goroutine c has begun
BegunBy(c) == calls[c] + (IF pc[c] = "idle" THEN 0 ELSE 1)

\* Every call made so far passed plain values, as many as the parameters
\* before the variadic one, or more when there is a variadic one.
OnlyFittingCalls ==
    \A d \in Callers :
        /\ BegunBy(d) <= 1
        /\ BegunBy(d) = 1 =>
              /\ args[d] = Plain(Len(args[d]))
              /\ \/ Len(args[d]) = Leading(InArgs)
                 \/ Len(args[d]) > Leading(InArgs) /\ Leading(InArgs) < Len(InArgs)

\* C11: a response without error carries the user's function's view of its
\* parameters: each non-variadic one is the request element at its own
\* index, a trailing variadic one is the elements from its index to the
\* end; and an Execute with just the leading arguments (none at all for a
\* parameterless or variadic-only entry point) succeeds, the variadic
\* parameter being empty.
C11_Binding ==
    \A c \in Callers :
        /\ (handshake = "ready" /\ ret[c].how = "ok" /\ ret[c].Error = NoErr)
              => ret[c].Value = << << "ret" >> >> \o Expected(InArgs, args[c])
        /\ (handshake = "ready" /\ NoClose /\ Returned(c) /\ OnlyFittingCalls)
              => /\ ret[c].how = "ok"
                 /\ ret[c].Error = NoErr
                 /\ Len(args[c]) = Leading(InArgs) /\ Leading(InArgs) < Len(InArgs)
                       => ret[c].Value[Len(InArgs) + 1] = << >>

\* Execute() on a variadic-only entry point came back with the parameter
\* bound to the empty sequence.
C11_Witness ==
    \E c \in Callers :
        /\ handshake = "ready"
        /\ Len(InArgs) = 1 /\ Variadic(InArgs[1])
        /\ args[c] = << >>
        /\ ret[c].how = "ok"
        /\ ret[c].Value = << << "ret" >>, << >> >>

\* ------------------------------------------------------------------ C12

\* New was given a snippet with an entry point and wrote the generated file.
Generated == scriptFile # "" /\ \E i \in 1..Len(source) : source[i].entry

\* The parameters of the snippet's entry point, as written.
Written == source[CHOOSE i \in 1..Len(source) : source[i].entry].params

\* The place of the nearest parameter after i that is written with a type,
\* 0 when there is none.
NextTyped(params, i) ==
    LET later == {j \in (i + 1)..Len(params) : params[j].Typ # << >>}
    IN  IF later = {} THEN 0 ELSE CHOOSE j \in later : \A k \in later : j <= k

\* C12: extractArguments returns one descriptor per parameter written
\* between commas, in order, Index being the position and Name the first
\* word, and a parameter written without a type has the type of the nearest
\* following parameter written with one; no parameters, no descriptors.
C12_Descriptors ==
    Generated =>
        /\ Len(InArgs) = Len(Written)
        /\ \A i \in 1..Len(Written) :
              /\ InArgs[i].Index = i - 1
              /\ InArgs[i].Name = << Written[i].Name >>
              /\ (Written[i].Typ = << >> /\ NextTyped(Written, i) # 0)
                    => InArgs[i].Typ = Written[NextTyped(Written, i)].Typ

\* ------------------------------------------------------------------ C13

\* The snippet writes "..." on no parameter but the last, and the parameter
\* before a variadic one has a type of its own.
VariadicWrittenLast ==
    \A i \in 1..Len(Written) :
        HasPrefix(Written[i].Typ, << "..." >>)
            => i = Len(Written) /\ (i > 1 => Written[i - 1].Typ # << >>)

NothingLaunched ==
    /\ cmd = "nil" /\ process = "nil"
    /\ stdin = "nil" /\ stdout = "nil" /\ stderr = "nil"
    /\ child = "none" /\ handshake = "none"

\* C14: when no line of the snippet begins, trimmed, with the entry point,
\* New records the missing-entry-point error and neither directory, file nor
\* process comes to exist; and a failure at any step of New keeps every
\* later step from running.
C14_ShortCircuit ==
    phase = "built" =>
        /\ (\A i \in 1..Len(source) : ~source[i].entry)
              => /\ err = PlainErr("missing func goscript")
                 /\ ~dirExists /\ ~fileExists /\ scriptFile = ""
                 /\ NothingLaunched
        /\ err.kind = "tempdir" => ~dirExists /\ ~fileExists /\ NothingLaunched
        /\ err.kind = "create" => ~fileExists /\ scriptFile = "" /\ NothingLaunched
        /\ err.kind \in {"template", "close"} => scriptFile = "" /\ NothingLaunched
        /\ err.kind = "stdinpipe"
              => stdin = "nil" /\ stdout = "nil" /\ stderr = "nil" /\ process = "nil"
                    /\ child = "none"
        /\ err.kind = "stdoutpipe"
              => stdout = "nil" /\ stderr = "nil" /\ process = "nil" /\ child = "none"
        /\ err.kind = "stderrpipe" => stderr = "nil" /\ process = "nil" /\ child = "none"
        /\ err.kind = "start" => process = "nil" /\ child = "none" /\ handshake = "none"

\* New returned the missing-entry-point error for a snippet of comments.
C14_Witness ==
    /\ phase = "built"
    /\ source # << >>
    /\ \A i \in 1..Len(source) : ~source[i].entry
    /\ err.kind = "missing func goscript"

\* ------------------------------------------------------------------ C15, C16

\* The template lines before the line the snippet is substituted at.
Offset == Len(TemplateHead) - 1

\* how many lines of text are the line x
Count(text, x) == Cardinality({i \in 1..Len(text) : text[i] = x})

\* New failed at the handshake and surfaced the remapped stderr text.
Surfaced == phase = "built" /\ handshake = "eof" /\ err.kind = "Error"

\* C15: a diagnostic line that names the generated file at line Offset + k,
\* k from 1 to the number of lines of the snippet, is kept, renamed to
\* `goscript` and renumbered to k; a line is dropped for its number only
\* when the adjusted number is greater than the snippet's number of lines.
C15_Remapped ==
    Surfaced =>
        \A i \in 1..Len(stderrb) :
            (stderrb[i].kind = "ref" /\ stderrb[i].n - Offset <= Len(source))
                => Count(err.text, [kind |-> "goscript", n |-> stderrb[i].n - Offset])
                      = Count(stderrb, stderrb[i])

\* C16: every surfaced line that named the generated file carries a number
\* from 1 to the snippet's number of lines, whether the diagnostic was
\* located before the snippet's lines or after them.
C16_NoScaffolding ==
    Surfaced =>
        \A i \in 1..Len(err.text) :
            err.text[i].kind = "goscript"
                => 1 <= err.text[i].n /\ err.text[i].n <= Len(source)

\* ------------------------------------------------------------------ C17

\* The order of the steps of Close.
CloseOrder ==
    { << "idle", "kill" >>, << "kill", "stdout" >>, << "stdout", "stderr" >>,
      << "stderr", "remove" >>, << "remove", "idle" >> }

\* The child runs although the host holds its process.
Running == ProcessSet /\ child \in {"wait", "hung"}

\* C17: Close closes the request stream first, then kills the process
\* unless it is known to have exited, then closes the two output streams,
\* then removes the generated file; and it goes through all of these steps
\* whatever became of the earlier ones, so that when it returns every one
\* of them has been carried out.
C17_CloseOrder ==
    [][ phase = "built" =>
          /\ cpc' # cpc => << cpc, cpc' >> \in CloseOrder
          /\ stdin' # stdin => cpc = "idle" /\ cpc' = "kill"
          /\ (exitStatus' = "killed" /\ exitStatus # "killed")
                => /\ cpc = "kill" /\ cpc' = "stdout"
                   /\ stdin # "open"
                   /\ ProcessState = "nil" \/ ~Exited(ProcessState)
          /\ stdout' # stdout => cpc = "stdout" /\ stdin # "open" /\ ~Running
          /\ stderr' # stderr => cpc = "stderr" /\ stdout # "open" /\ ~Running
          /\ fileExists' # fileExists
                => cpc = "remove" /\ stdin # "open" /\ stdout # "open" /\ stderr # "open"
                      /\ ~Running
          /\ closes' > closes
                => /\ stdin' # "open" /\ stdout' # "open" /\ stderr' # "open"
                   /\ ~Running'
                   /\ scriptFile # "" => ~fileExists' ]_vars

\* A second Close, whose first steps found the stream closed and the
\* process killed already, got to its last step.
C17_Witness == closes = 1 /\ cpc = "remove" /\ exitStatus = "killed" /\ ~fileExists

\* ------------------------------------------------------------------ C18

\* C18: an Execute that has returned, on whichever path, does not hold the
\* lock, so the lock is held only by a call between its Lock and its return;
\* and an Execute waiting for the lock gets it, unless the call that holds
\* it never returns because the child hangs.
C18_LockReleased ==
    /\ [](\A c \in Callers : executeLock = c <=> pc[c] \in {"encode", "decode"})
    /\ \A c \in Callers : (pc[c] = "lock") ~> (pc[c] # "lock" \/ child = "hung")

\* A call has the lock after the one before it failed on a dead child.
C18_Witness ==
    \E c, d \in Callers :
        /\ c # d
        /\ ret[c].how = "transport"
        /\ pc[c] = "idle"
        /\ executeLock = d
        /\ pc[d] = "encode"

\* ------------------------------------------------------------------ C19

\* The steps an Execute call goes through: none leads back to the write.
ExecuteOrder ==
    { << "idle", "lock" >>, << "lock", "encode" >>, << "encode", "decode" >>,
      << "encode", "idle" >>, << "decode", "idle" >> }

\* C19: no step of an Execute, failed or not, changes the stored
\* construction error or the stream handles; a call writes one request at
\* most and reads one response at most and never goes back to write again;
\* and an Execute returns at once only with the construction error New
\* stored, so after a failed call the next one makes its own round trip.
C19_FailedExecute ==
    [][ \A c \in Callers :
          /\ (pc'[c] # pc[c] \/ calls'[c] # calls[c])
                => /\ UNCHANGED inst
                   /\ pc'[c] # pc[c] => << pc[c], pc'[c] >> \in ExecuteOrder
                   /\ reqStream' # reqStream
                         => /\ pc[c] = "encode" /\ pc'[c] = "decode"
                            /\ reqStream' = Append(reqStream, args[c])
                   /\ respStream' # respStream
                         => /\ pc[c] = "decode" /\ pc'[c] = "idle"
                            /\ respStream' = Tail(respStream)
                   /\ (pc[c] = "idle" /\ err = NoErr) => pc'[c] = "lock"
                   /\ ret'[c].how = "construction"
                         => err # NoErr /\ ret'[c].Error = err ]_vars

\* A goroutine whose only call so far made the child panic, and so failed,
\* is past the s.err check of its next call.
C19_Witness ==
    \E c, d \in Callers :
        /\ c # d
        /\ calls[c] = 1 /\ pc[c] = "lock"
        /\ calls[d] = 0 /\ pc[d] = "idle"
        /\ exitStatus = "2"

\* ------------------------------------------------------------------ C20

\* The child waits for a request that will not come.
AtEndOfInput == child = "wait" /\ reqStream = << >> /\ stdin = "closed"

\* C20: a child whose Decode of the next request fails ends with a fatal
\* exit and writes no response; so once the host has closed the request
\* stream, a child waiting for the next request exits, whether or not the
\* host ever gets to kill it.
C20_ChildExitsOnEOF ==
    /\ [][ (child = "wait" /\ reqStream = << >> /\ child' # child /\ exitStatus' # "killed")
              => /\ stdin = "closed"
                 /\ child' = "exited" /\ exitStatus' = "1"
                 /\ respStream' = respStream ]_vars
    /\ AtEndOfInput ~> child = "exited"

\* The child ended on the end of its input, not by the host's kill, while
\* Close was still under way.
C20_Witness ==
    /\ stdin = "closed"
    /\ cpc = "kill"
    /\ child = "exited"
    /\ exitStatus = "1"
    /\ reqStream = << >>
    /\ handshake = "ready"
    /\ \A c \in Callers : calls[c] = 0 /\ pc[c] = "idle"

\* ------------------------------------------------------------------ C21

\* C21: on an instance that became ready, an Execute that starts once a
\* Close has returned makes its Lock and its Encode with the request stream
\* closed: it never gets to wait for a response, it returns a nil value and
\* an error and takes no response from the stream; and no call is left
\* waiting once a Close has returned.
C21_ExecuteAfterClose ==
    /\ [][ \A c \in Callers :
             (handshake = "ready" /\ closes >= 1 /\ pc[c] \in {"idle", "lock", "encode"}
                 /\ pc'[c] # pc[c])
                 => /\ pc'[c] # "decode"
                    /\ reqStream' = reqStream /\ respStream' = respStream
                    /\ pc'[c] = "idle"
                          => /\ ret'[c].Value = << >>
                             /\ ret'[c].Error # NoErr
                             /\ ret'[c].how = "transport" ]_vars
    /\ \A c \in Callers : []<>(closes = 0 \/ pc[c] = "idle")

\* The only call ever made came back with the error of a closed stream, a
\* Close having found the child waiting, killed it and returned.
C21_Witness ==
    \E c, d \in Callers :
        /\ c # d
        /\ handshake = "ready"
        /\ closes >= 1
        /\ exitStatus = "killed"
        /\ calls[c] = 1 /\ pc[c] = "idle"
        /\ calls[d] = 0 /\ pc[d] = "idle"
        /\ ret[c].Value = << >>
        /\ ret[c].Error = PlainErr("file already closed")

====
